---- MODULE Spec2Model ----
(***************************************************************************)
(* el_monitorro: the subscription creation pipeline of src/bot/logic.rs.   *)
(*                                                                         *)
(* A connection runs create_subscription one statement at a time: the      *)
(* url.is_none() check, validate_rss_url (Url::parse, then                  *)
(* Channel::from_url), then the diesel transaction: create_chat,           *)
(* feeds::create, check_if_subscription_exists,                            *)
(* check_number_of_subscriptions, telegram::create_subscription, and the   *)
(* commit or rollback that diesel's Connection::transaction performs on    *)
(* the closure's Ok or Err.                                                *)
(*                                                                         *)
(* Storage is three tables, each a bag of rows (a table without a unique   *)
(* constraint can hold the same row twice).  A transaction writes into the *)
(* connection's own buffer; its reads see the committed tables plus that   *)
(* buffer; commit adds the buffer to the committed tables and rollback     *)
(* drops it.  The repository functions of crate::db (create_chat,          *)
(* feeds::create, find_subscription, count_subscriptions_for_chat,         *)
(* create_subscription) are not part of the shown sources and are modelled *)
(* from the storage contracts of the specification's sections 3, 4.3, 6.   *)
(***************************************************************************)
EXTENDS Bags, FiniteSets, Integers, Sequences, TLC

\* Bounds of the model: the number of well-formed url strings callers use,
\* and the number of items of a channel.
MaxUrl == 4
MaxItems == 2
\* The number of feed ids the storage hands out while calls overlap.
MaxFeedId == 3
\* The number of savepoints failing rollbacks leave on a connection before
\* its caller makes no further call on it.
MaxSavepoints == 1

\* check_number_of_subscriptions accepts the counts 0 | 1 | 2.
SubscriptionLimit == 3

\* The database connections (one caller each), and the one that is used when
\* calls are made one after the other.
Conns == {1, 2}
SeqConns == {1}

\* Option<T>: None is the empty sequence, Some(x) the one-element sequence.
None == <<>>
Some(x) == <<x>>
IsNone(o) == Len(o) = 0
IsSome(o) == Len(o) = 1
Unwrap(o) == o[1]

\* The chat descriptors (NewTelegramChat) callers pass: the tests' chat 42
\* and a second chat.  create_subscription reads no field but the id.
ChatIds == {42, 43}
NewTelegramChat == [id : ChatIds]

\* The url strings callers pass.  "11" has no scheme; the others are
\* "https:/google<n>.com" for n in 0..MaxUrl-1.
BadUrl == [scheme |-> "", rest |-> 11]
GoodUrls == [scheme : {"https"}, rest : 0..(MaxUrl - 1)]
Urls == GoodUrls \cup {BadUrl}
RssUrlArgs == {None} \cup {Some(u) : u \in Urls}

\* What Channel::from_url can come back with: a parsed channel or one of its
\* failures (the request, the body).
FetchOutcomes == {"channel", "io_error", "xml_error"}

\* Url::parse: a string without a scheme is a relative URL without a base.
Url_parse(s) ==
    IF s.scheme = "" THEN [ok |-> FALSE, err |-> "RelativeUrlWithoutBase"]
    ELSE [ok |-> TRUE, err |-> ""]

\* The Result of create_subscription.
NoResult == [kind |-> "none", err |-> "", cause |-> "", sub |-> None]
Ok(s) == [kind |-> "Ok", err |-> "", cause |-> "", sub |-> Some(s)]
Err(e) == [kind |-> "Err", err |-> e, cause |-> "", sub |-> None]
\* impl From<diesel::result::Error> for SubscriptionError
From_diesel_Error(cause) ==
    [kind |-> "Err", err |-> "DbError", cause |-> cause, sub |-> None]
\* Result::unwrap on an Err: the call unwinds, there is no Result.
Panicked(cause) == [kind |-> "panic", err |-> "", cause |-> cause, sub |-> None]

\* A storage state: the three tables.
EmptyStorage == [chats |-> EmptyBag, feeds |-> EmptyBag, subs |-> EmptyBag]
Merge(a, b) ==
    [chats |-> a.chats (+) b.chats,
     feeds |-> a.feeds (+) b.feeds,
     subs |-> a.subs (+) b.subs]

VARIABLES
    db,          \* the committed tables
    tx,          \* tx[c]: the rows connection c wrote in its open transaction
    in_tx,       \* in_tx[c]: connection c has a transaction open
    savepoint,   \* savepoint[c]: the rows written before each open savepoint
    pc,          \* pc[c]: the statement connection c executes next
    new_chat,    \* the arguments of the running call
    rss_url,
    fetched,     \* what Channel::from_url returned to validate_rss_url
    chat,        \* the locals of the transaction closure
    feed,
    pending,     \* the closure's Err, on its way through the rollback
    result,      \* what the call returned
    events,      \* what the running call has done so far, in order
    pre,         \* the committed tables when the call started
    source,      \* what Channel::from_url returned to RssReader::read_rss
    read_result  \* what read_rss returned

\* The variables of create_subscription, those of the RssReader, and all.
subVars == <<db, tx, in_tx, savepoint, pc, new_chat, rss_url, fetched, chat, feed,
             pending, result, events, pre>>
rssVars == <<source, read_result>>
vars == <<db, tx, in_tx, savepoint, pc, new_chat, rss_url, fetched, chat, feed, pending,
          result, events, pre, source, read_result>>

\* What a statement of connection c reads: committed rows and its own writes.
View(c) == Merge(db, tx[c])

Init ==
    /\ db = EmptyStorage
    /\ tx = [c \in Conns |-> EmptyStorage]
    /\ in_tx = [c \in Conns |-> FALSE]
    /\ savepoint = [c \in Conns |-> <<>>]
    /\ pc = [c \in Conns |-> "idle"]
    /\ new_chat = [c \in Conns |-> None]
    /\ rss_url = [c \in Conns |-> None]
    /\ fetched = [c \in Conns |-> None]
    /\ chat = [c \in Conns |-> None]
    /\ feed = [c \in Conns |-> None]
    /\ pending = [c \in Conns |-> ""]
    /\ result = [c \in Conns |-> NoResult]
    /\ events = [c \in Conns |-> <<>>]
    /\ pre = [c \in Conns |-> EmptyStorage]
    /\ source = None
    /\ read_result = None

Log(c, e) == events' = [events EXCEPT ![c] = Append(@, e)]

\* return: the call leaves with a Result.
Finish(c, r) ==
    /\ result' = [result EXCEPT ![c] = r]
    /\ pc' = [pc EXCEPT ![c] = "done"]

\* The storage repository (crate::db), from its contracts.

\* An INSERT of connection c: into its open transaction, or, with no
\* transaction open, straight into the committed table.
InsertChat(c, row) ==
    IF in_tx[c]
    THEN /\ tx' = [tx EXCEPT ![c].chats = @ (+) SetToBag({row})]
         /\ UNCHANGED db
    ELSE /\ db' = [db EXCEPT !.chats = @ (+) SetToBag({row})]
         /\ UNCHANGED tx
InsertFeed(c, row) ==
    IF in_tx[c]
    THEN /\ tx' = [tx EXCEPT ![c].feeds = @ (+) SetToBag({row})]
         /\ UNCHANGED db
    ELSE /\ db' = [db EXCEPT !.feeds = @ (+) SetToBag({row})]
         /\ UNCHANGED tx
InsertSub(c, row) ==
    IF in_tx[c]
    THEN /\ tx' = [tx EXCEPT ![c].subs = @ (+) SetToBag({row})]
         /\ UNCHANGED db
    ELSE /\ db' = [db EXCEPT !.subs = @ (+) SetToBag({row})]
         /\ UNCHANGED tx

\* The chat rows with an id, the feed rows with a url.
ChatRows(chats, id) == {r \in BagToSet(chats) : r.id = id}
FeedRows(feeds, url) == {r \in BagToSet(feeds) : r.url = url}

\* The id a newly inserted feed row gets: one the storage has not handed out
\* to any row, committed or not.
FeedIdsInUse ==
    {r.id : r \in BagToSet(db.feeds)}
        \cup UNION {{r.id : r \in BagToSet(tx[c].feeds)} : c \in Conns}
NextFeedId ==
    IF FeedIdsInUse = {} THEN 1
    ELSE 1 + CHOOSE m \in FeedIdsInUse : \A n \in FeedIdsInUse : n <= m

\* telegram::find_subscription(connection, subscription) -> Option<row>
find_subscription(subs, s) ==
    IF BagIn(s, subs) THEN Some(s) ELSE None

\* telegram::count_subscriptions_for_chat(connection, chat_id) -> i64
count_subscriptions_for_chat(subs, chat_id) ==
    BagCardinality([r \in {q \in BagToSet(subs) : q.chat_id = chat_id}
                        |-> CopiesIn(r, subs)])

\* A NewTelegramSubscription with the two ids in each other's place.
NewTelegramSubscription_swapped(ch, fd) == [chat_id |-> fd.id, feed_id |-> ch.id]

\* NewTelegramSubscription { chat_id: chat.id, feed_id: feed.id }
NewTelegramSubscription(ch, fd) == [chat_id |-> ch.id, feed_id |-> fd.id]

\* A check_if_subscription_exists whose match returns Ok(()) in both arms.
check_if_subscription_exists_never(subs, subscription) == ""

\* The TelegramSubscription row the storage makes of a NewTelegramSubscription.
\* Its created_at and updated_at are set by the storage and read by no
\* statement of create_subscription; they are left out.
TelegramSubscription(n) == [chat_id |-> n.chat_id, feed_id |-> n.feed_id]

\* check_if_subscription_exists: Ok(()) is "", an Err is its name.
check_if_subscription_exists(subs, subscription) ==
    IF IsNone(find_subscription(subs, subscription)) THEN ""
    ELSE "SubscriptionAlreadyExists"

\* A check_number_of_subscriptions that is off by one: `0 | 1 | 2 | 3`.
check_number_of_subscriptions_off_by_one(subs, chat_id) ==
    IF count_subscriptions_for_chat(subs, chat_id) \in 0..SubscriptionLimit
    THEN ""
    ELSE "SubscriptionCountLimit"

\* A check_number_of_subscriptions that lets every count through.
check_number_of_subscriptions_unchecked(subs, chat_id) == ""

\* A check_number_of_subscriptions that counts the rows of every chat.
check_number_of_subscriptions_global(subs, chat_id) ==
    IF BagCardinality(subs) \in 0..(SubscriptionLimit - 1)
    THEN ""
    ELSE "SubscriptionCountLimit"

\* check_number_of_subscriptions: `0 | 1 | 2 => Ok(())`, anything else Err.
check_number_of_subscriptions(subs, chat_id) ==
    IF count_subscriptions_for_chat(subs, chat_id) \in 0..(SubscriptionLimit - 1)
    THEN ""
    ELSE "SubscriptionCountLimit"

\* A create_subscription without the is_none() check, which validates
\* rss_url.unwrap_or_default(): Url::parse("") fails.
EnterCall_validates_first(c, nc, url) ==
    /\ pc[c] = "idle"
    /\ new_chat' = [new_chat EXCEPT ![c] = Some(nc)]
    /\ rss_url' = [rss_url EXCEPT ![c] = url]
    /\ pre' = [pre EXCEPT ![c] = db]
    /\ IF IsNone(url)
       THEN /\ events' = [events EXCEPT ![c] = <<"url_parse">>]
            /\ Finish(c, Err("InvalidRssUrl"))
       ELSE /\ events' = [events EXCEPT ![c] = <<"url_presence_check">>]
            /\ pc' = [pc EXCEPT ![c] = "parse"]
            /\ UNCHANGED result
    /\ UNCHANGED rssVars
    /\ UNCHANGED savepoint
    /\ UNCHANGED <<db, tx, in_tx, fetched, chat, feed, pending>>

\* create_subscription is entered: `if rss_url.is_none() { return Err(..) }`.
EnterCall(c, nc, url) ==
    /\ pc[c] = "idle"
    /\ new_chat' = [new_chat EXCEPT ![c] = Some(nc)]
    /\ rss_url' = [rss_url EXCEPT ![c] = url]
    /\ pre' = [pre EXCEPT ![c] = db]
    /\ events' = [events EXCEPT ![c] = <<"url_presence_check">>]
    /\ IF IsNone(url)
       THEN Finish(c, Err("RssUrlNotProvided"))
       ELSE /\ pc' = [pc EXCEPT ![c] = "parse"]
            /\ UNCHANGED result
    /\ UNCHANGED rssVars
    /\ UNCHANGED savepoint
    /\ UNCHANGED <<db, tx, in_tx, fetched, chat, feed, pending>>

\* A call made while no other call is running: each call runs to completion
\* before the next.  No call is made on a connection that failing rollbacks
\* have left with MaxSavepoints savepoints.
Enter(c, nc, url) ==
    /\ \A d \in Conns : pc[d] = "idle"
    /\ Len(savepoint[c]) < MaxSavepoints
    /\ EnterCall(c, nc, url)

\* A validate_rss_url that goes on to Channel::from_url whatever Url::parse
\* returned.
ValidateParse_fetches_anyway(c) ==
    /\ pc[c] = "parse"
    /\ Log(c, "url_parse")
    /\ pc' = [pc EXCEPT ![c] = "fetch"]
    /\ UNCHANGED rssVars
    /\ UNCHANGED savepoint
    /\ UNCHANGED <<db, tx, in_tx, new_chat, rss_url, fetched, chat, feed,
                   pending, result, pre>>

\* A create_subscription that validates inside the transaction closure:
\* the transaction is open when Channel::from_url runs.
ValidateParse_opens_transaction(c) ==
    /\ pc[c] = "parse"
    /\ Log(c, "url_parse")
    /\ IF Url_parse(Unwrap(rss_url[c])).ok
       THEN /\ pc' = [pc EXCEPT ![c] = "fetch"]
            /\ in_tx' = [in_tx EXCEPT ![c] = TRUE]
            /\ UNCHANGED result
       ELSE /\ Finish(c, Err("InvalidRssUrl"))
            /\ UNCHANGED in_tx
    /\ UNCHANGED rssVars
    /\ UNCHANGED savepoint
    /\ UNCHANGED <<db, tx, new_chat, rss_url, fetched, chat, feed, pending, pre>>

\* validate_rss_url, outer match: Url::parse(rss_url).
ValidateParse(c) ==
    /\ pc[c] = "parse"
    /\ Log(c, "url_parse")
    /\ IF Url_parse(Unwrap(rss_url[c])).ok
       THEN /\ pc' = [pc EXCEPT ![c] = "fetch"]
            /\ UNCHANGED result
       ELSE Finish(c, Err("InvalidRssUrl"))
    /\ UNCHANGED rssVars
    /\ UNCHANGED savepoint
    /\ UNCHANGED <<db, tx, in_tx, new_chat, rss_url, fetched, chat, feed,
                   pending, pre>>

\* A validate_rss_url whose inner match returns Ok(()) in both arms.
ValidateFetch_ignores_failure(c, outcome) ==
    /\ pc[c] = "fetch"
    /\ Log(c, "feed_fetch")
    /\ fetched' = [fetched EXCEPT ![c] = Some(outcome)]
    /\ pc' = [pc EXCEPT ![c] = "begin"]
    /\ UNCHANGED rssVars
    /\ UNCHANGED savepoint
    /\ UNCHANGED <<db, tx, in_tx, new_chat, rss_url, chat, feed, pending,
                   result, pre>>

\* validate_rss_url, inner match: Channel::from_url(rss_url).
ValidateFetch(c, outcome) ==
    /\ pc[c] = "fetch"
    /\ Log(c, "feed_fetch")
    /\ fetched' = [fetched EXCEPT ![c] = Some(outcome)]
    /\ IF outcome = "channel"
       THEN /\ pc' = [pc EXCEPT ![c] = "begin"]
            /\ UNCHANGED result
       ELSE Finish(c, Err("UrlIsNotRss"))
    /\ UNCHANGED rssVars
    /\ UNCHANGED savepoint
    /\ UNCHANGED <<db, tx, in_tx, new_chat, rss_url, chat, feed, pending, pre>>

\* The closure run without a transaction around it.
BeginTransaction_not_opened(c) ==
    /\ pc[c] = "begin"
    /\ Log(c, "open_unit_of_work")
    /\ pc' = [pc EXCEPT ![c] = "create_chat"]
    /\ UNCHANGED rssVars
    /\ UNCHANGED savepoint
    /\ UNCHANGED <<db, tx, in_tx, new_chat, rss_url, fetched, chat, feed,
                   pending, result, pre>>

\* db_connection.transaction(|| ...): begin_transaction.  On a connection
\* whose transaction is still open (its rollback failed) it is a savepoint.
BeginTransaction(c) ==
    /\ pc[c] = "begin"
    /\ Log(c, "open_unit_of_work")
    /\ in_tx' = [in_tx EXCEPT ![c] = TRUE]
    /\ savepoint' = [savepoint EXCEPT
                        ![c] = IF in_tx[c] THEN Append(@, tx[c]) ELSE @]
    /\ pc' = [pc EXCEPT ![c] = "create_chat"]
    /\ UNCHANGED rssVars
    /\ UNCHANGED <<db, tx, new_chat, rss_url, fetched, chat, feed, pending,
                   result, pre>>

\* A create_chat that inserts a row whether or not the id has one.
CreateChat_always_inserts(c) ==
    /\ pc[c] = "create_chat"
    /\ Log(c, "upsert_chat")
    /\ chat' = [chat EXCEPT ![c] = Some(Unwrap(new_chat[c]))]
    /\ InsertChat(c, Unwrap(new_chat[c]))
    /\ pc' = [pc EXCEPT ![c] = "create_feed"]
    /\ UNCHANGED rssVars
    /\ UNCHANGED savepoint
    /\ UNCHANGED <<in_tx, new_chat, rss_url, fetched, feed, pending, result, pre>>

\* let chat = telegram::create_chat(db_connection, new_chat).unwrap();
\* the row with the descriptor's id if there is one, else a new row.
CreateChat(c) ==
    /\ pc[c] = "create_chat"
    /\ Log(c, "upsert_chat")
    /\ LET nc == Unwrap(new_chat[c])
           found == ChatRows(View(c).chats, nc.id)
       IN IF found # {}
          THEN /\ chat' = [chat EXCEPT ![c] = Some(CHOOSE r \in found : TRUE)]
               /\ UNCHANGED <<db, tx>>
          ELSE /\ chat' = [chat EXCEPT ![c] = Some(nc)]
               /\ InsertChat(c, nc)
    /\ pc' = [pc EXCEPT ![c] = "create_feed"]
    /\ UNCHANGED rssVars
    /\ UNCHANGED savepoint
    /\ UNCHANGED <<in_tx, new_chat, rss_url, fetched, feed, pending, result, pre>>

\* A feeds::create that inserts a row whether or not the url has one.
FeedsCreate_always_inserts(c) ==
    /\ pc[c] = "create_feed"
    /\ Log(c, "upsert_feed")
    /\ LET row == [id |-> NextFeedId, url |-> Unwrap(rss_url[c])]
       IN /\ feed' = [feed EXCEPT ![c] = Some(row)]
          /\ InsertFeed(c, row)
    /\ pc' = [pc EXCEPT ![c] = "find"]
    /\ UNCHANGED rssVars
    /\ UNCHANGED savepoint
    /\ UNCHANGED <<in_tx, new_chat, rss_url, fetched, chat, pending, result, pre>>

\* let feed = feeds::create(db_connection, url).unwrap();
\* the row with that url if there is one, else a new row with a new id.
FeedsCreate(c) ==
    /\ pc[c] = "create_feed"
    /\ Log(c, "upsert_feed")
    /\ LET url == Unwrap(rss_url[c])
           found == FeedRows(View(c).feeds, url)
           row == [id |-> NextFeedId, url |-> url]
       IN IF found # {}
          THEN /\ feed' = [feed EXCEPT ![c] = Some(CHOOSE r \in found : TRUE)]
               /\ UNCHANGED <<db, tx>>
          ELSE /\ feed' = [feed EXCEPT ![c] = Some(row)]
               /\ InsertFeed(c, row)
    /\ pc' = [pc EXCEPT ![c] = "find"]
    /\ UNCHANGED rssVars
    /\ UNCHANGED savepoint
    /\ UNCHANGED <<in_tx, new_chat, rss_url, fetched, chat, pending, result, pre>>

\* The closure's `?`: Ok(()) goes on to the next statement, an Err leaves the
\* closure.
Question(c, e, next) ==
    IF e = ""
    THEN /\ pc' = [pc EXCEPT ![c] = next]
         /\ UNCHANGED pending
    ELSE /\ pc' = [pc EXCEPT ![c] = "rollback"]
         /\ pending' = [pending EXCEPT ![c] = e]

\* A closure with the two checks in the other order: the count check runs
\* first and its Err leaves the closure.
CheckIfSubscriptionExists_after_count(c) ==
    /\ pc[c] = "find"
    /\ LET e1 == check_number_of_subscriptions(View(c).subs, Unwrap(chat[c]).id)
           e2 == check_if_subscription_exists(
                     View(c).subs,
                     NewTelegramSubscription(Unwrap(chat[c]), Unwrap(feed[c])))
       IN IF e1 # ""
          THEN /\ Log(c, "count_subscriptions")
               /\ Question(c, e1, "count")
          ELSE /\ Log(c, "find_subscription")
               /\ Question(c, e2, "count")
    /\ UNCHANGED rssVars
    /\ UNCHANGED savepoint
    /\ UNCHANGED <<db, tx, in_tx, new_chat, rss_url, fetched, chat, feed,
                   result, pre>>

\* check_if_subscription_exists(db_connection, new_telegram_subscription)?;
CheckIfSubscriptionExists(c) ==
    /\ pc[c] = "find"
    /\ Log(c, "find_subscription")
    /\ Question(c,
                check_if_subscription_exists(
                    View(c).subs,
                    NewTelegramSubscription(Unwrap(chat[c]), Unwrap(feed[c]))),
                "count")
    /\ UNCHANGED rssVars
    /\ UNCHANGED savepoint
    /\ UNCHANGED <<db, tx, in_tx, new_chat, rss_url, fetched, chat, feed,
                   result, pre>>

\* check_number_of_subscriptions(db_connection, chat.id)?;
CheckNumberOfSubscriptions(c) ==
    /\ pc[c] = "count"
    /\ Log(c, "count_subscriptions")
    /\ Question(c,
                check_number_of_subscriptions(View(c).subs, Unwrap(chat[c]).id),
                "insert")
    /\ UNCHANGED rssVars
    /\ UNCHANGED savepoint
    /\ UNCHANGED <<db, tx, in_tx, new_chat, rss_url, fetched, chat, feed,
                   result, pre>>

\* let subscription = telegram::create_subscription(..).unwrap();
InsertSubscription(c) ==
    /\ pc[c] = "insert"
    /\ Log(c, "insert_subscription")
    /\ InsertSub(c, TelegramSubscription(
                        NewTelegramSubscription(Unwrap(chat[c]), Unwrap(feed[c]))))
    /\ pc' = [pc EXCEPT ![c] = "commit"]
    /\ UNCHANGED rssVars
    /\ UNCHANGED savepoint
    /\ UNCHANGED <<in_tx, new_chat, rss_url, fetched, chat, feed, pending,
                   result, pre>>

\* A commit that replaces the tables by the rows of the transaction.
CommitTransaction_overwrites(c) ==
    /\ pc[c] = "commit"
    /\ Log(c, "commit")
    /\ db' = tx[c]
    /\ tx' = [tx EXCEPT ![c] = EmptyStorage]
    /\ in_tx' = [in_tx EXCEPT ![c] = FALSE]
    /\ Finish(c, Ok(TelegramSubscription(
                        NewTelegramSubscription(Unwrap(chat[c]), Unwrap(feed[c])))))
    /\ UNCHANGED rssVars
    /\ UNCHANGED savepoint
    /\ UNCHANGED <<new_chat, rss_url, fetched, chat, feed, pending, pre>>

\* The closure returned Ok(subscription): commit_transaction, then Ok(value).
\* Under a savepoint the commit releases the savepoint and the rows stay in
\* the open transaction.
CommitTransaction(c) ==
    /\ pc[c] = "commit"
    /\ Log(c, "commit")
    /\ IF savepoint[c] = <<>>
       THEN /\ db' = Merge(db, tx[c])
            /\ tx' = [tx EXCEPT ![c] = EmptyStorage]
            /\ in_tx' = [in_tx EXCEPT ![c] = FALSE]
            /\ UNCHANGED savepoint
       ELSE /\ savepoint' = [savepoint EXCEPT ![c] = SubSeq(@, 1, Len(@) - 1)]
            /\ UNCHANGED <<db, tx, in_tx>>
    /\ Finish(c, Ok(TelegramSubscription(
                        NewTelegramSubscription(Unwrap(chat[c]), Unwrap(feed[c])))))
    /\ UNCHANGED rssVars
    /\ UNCHANGED <<new_chat, rss_url, fetched, chat, feed, pending, pre>>

\* A transaction() that commits on Err as it does on Ok.
RollbackTransaction_commits(c) ==
    /\ pc[c] = "rollback"
    /\ Log(c, "rollback")
    /\ db' = Merge(db, tx[c])
    /\ tx' = [tx EXCEPT ![c] = EmptyStorage]
    /\ in_tx' = [in_tx EXCEPT ![c] = FALSE]
    /\ Finish(c, Err(pending[c]))
    /\ UNCHANGED rssVars
    /\ UNCHANGED savepoint
    /\ UNCHANGED <<new_chat, rss_url, fetched, chat, feed, pending, pre>>

\* The closure returned Err(e): rollback_transaction, then Err(e).  Under a
\* savepoint the rollback is to the savepoint.
RollbackTransaction(c) ==
    /\ pc[c] = "rollback"
    /\ Log(c, "rollback")
    /\ IF savepoint[c] = <<>>
       THEN /\ tx' = [tx EXCEPT ![c] = EmptyStorage]
            /\ in_tx' = [in_tx EXCEPT ![c] = FALSE]
            /\ UNCHANGED savepoint
       ELSE /\ tx' = [tx EXCEPT ![c] = savepoint[c][Len(savepoint[c])]]
            /\ savepoint' = [savepoint EXCEPT ![c] = SubSeq(@, 1, Len(@) - 1)]
            /\ UNCHANGED in_tx
    /\ Finish(c, Err(pending[c]))
    /\ UNCHANGED rssVars
    /\ UNCHANGED <<db, new_chat, rss_url, fetched, chat, feed, pending, pre>>

\* The caller takes the Result; the connection is free for the next call.
Return(c) ==
    /\ pc[c] = "done"
    /\ pc' = [pc EXCEPT ![c] = "idle"]
    /\ new_chat' = [new_chat EXCEPT ![c] = None]
    /\ rss_url' = [rss_url EXCEPT ![c] = None]
    /\ fetched' = [fetched EXCEPT ![c] = None]
    /\ chat' = [chat EXCEPT ![c] = None]
    /\ feed' = [feed EXCEPT ![c] = None]
    /\ pending' = [pending EXCEPT ![c] = ""]
    /\ result' = [result EXCEPT ![c] = NoResult]
    /\ events' = [events EXCEPT ![c] = <<>>]
    /\ pre' = [pre EXCEPT ![c] = EmptyStorage]
    /\ UNCHANGED rssVars
    /\ UNCHANGED savepoint
    /\ UNCHANGED <<db, tx, in_tx>>

\* Storage failures.

\* A repository call of the closure returns Err(diesel error) and the
\* `.unwrap()` on it panics: the closure never returns, so transaction()
\* reaches neither its commit nor its rollback.
UnwrapPanics(c, at, what) ==
    /\ pc[c] = at
    /\ Log(c, what)
    /\ result' = [result EXCEPT ![c] = Panicked(what)]
    /\ pc' = [pc EXCEPT ![c] = "panicked"]
    /\ UNCHANGED rssVars
    /\ UNCHANGED savepoint
    /\ UNCHANGED <<db, tx, in_tx, new_chat, rss_url, fetched, chat, feed,
                   pending, pre>>

\* telegram::create_chat(..) fails.
CreateChatFails(c) == UnwrapPanics(c, "create_chat", "upsert_chat_failed")

\* feeds::create(..) fails.
FeedsCreateFails(c) == UnwrapPanics(c, "create_feed", "upsert_feed_failed")

\* telegram::create_subscription(..) fails.
InsertSubscriptionFails(c) ==
    UnwrapPanics(c, "insert", "insert_subscription_failed")

\* transaction(): begin_transaction fails, `?` converts the diesel error.
BeginFails(c) ==
    /\ pc[c] = "begin"
    /\ Log(c, "open_unit_of_work_failed")
    /\ Finish(c, From_diesel_Error("begin"))
    /\ UNCHANGED rssVars
    /\ UNCHANGED savepoint
    /\ UNCHANGED <<db, tx, in_tx, new_chat, rss_url, fetched, chat, feed,
                   pending, pre>>

\* transaction(): commit_transaction fails, `?` converts the diesel error;
\* the storage has dropped the transaction.
CommitFails(c) ==
    /\ pc[c] = "commit"
    /\ Log(c, "commit_failed")
    /\ tx' = [tx EXCEPT ![c] = EmptyStorage]
    /\ in_tx' = [in_tx EXCEPT ![c] = FALSE]
    /\ savepoint' = [savepoint EXCEPT ![c] = <<>>]
    /\ Finish(c, From_diesel_Error("commit"))
    /\ UNCHANGED rssVars
    /\ UNCHANGED <<db, new_chat, rss_url, fetched, chat, feed, pending, pre>>

\* transaction(): rollback_transaction fails, `?` converts the diesel error
\* and the closure's own Err is lost; the transaction, or the savepoint of a
\* nested one, stays open.
RollbackFails(c) ==
    /\ pc[c] = "rollback"
    /\ Log(c, "rollback_failed")
    /\ Finish(c, From_diesel_Error("rollback"))
    /\ UNCHANGED rssVars
    /\ UNCHANGED <<db, tx, in_tx, savepoint, new_chat, rss_url, fetched, chat,
                   feed, pending, pre>>

\* The panic unwinds out of the caller and the connection is closed with its
\* transaction still open: the storage drops what the transaction wrote.  The
\* next call has a new connection.
Unwind(c) ==
    /\ pc[c] = "panicked"
    /\ pc' = [pc EXCEPT ![c] = "idle"]
    /\ tx' = [tx EXCEPT ![c] = EmptyStorage]
    /\ in_tx' = [in_tx EXCEPT ![c] = FALSE]
    /\ new_chat' = [new_chat EXCEPT ![c] = None]
    /\ rss_url' = [rss_url EXCEPT ![c] = None]
    /\ fetched' = [fetched EXCEPT ![c] = None]
    /\ chat' = [chat EXCEPT ![c] = None]
    /\ feed' = [feed EXCEPT ![c] = None]
    /\ pending' = [pending EXCEPT ![c] = ""]
    /\ result' = [result EXCEPT ![c] = NoResult]
    /\ events' = [events EXCEPT ![c] = <<>>]
    /\ pre' = [pre EXCEPT ![c] = EmptyStorage]
    /\ UNCHANGED rssVars
    /\ savepoint' = [savepoint EXCEPT ![c] = <<>>]
    /\ UNCHANGED db

\* One statement of a call.
Step(c) ==
    \/ ValidateParse(c)
    \/ \E outcome \in FetchOutcomes : ValidateFetch(c, outcome)
    \/ BeginTransaction(c)
    \/ CreateChat(c)
    \/ FeedsCreate(c)
    \/ CheckIfSubscriptionExists(c)
    \/ CheckNumberOfSubscriptions(c)
    \/ InsertSubscription(c)
    \/ CommitTransaction(c)
    \/ RollbackTransaction(c)
    \/ Return(c)

\* One storage failure in a call.
Fault(c) ==
    \/ BeginFails(c)
    \/ CreateChatFails(c)
    \/ FeedsCreateFails(c)
    \/ InsertSubscriptionFails(c)
    \/ CommitFails(c)
    \/ RollbackFails(c)
    \/ Unwind(c)

Next ==
    \/ \E c \in SeqConns, nc \in NewTelegramChat, url \in RssUrlArgs :
          Enter(c, nc, url)
    \/ \E c \in Conns : Step(c)

NextFault ==
    \/ Next
    \/ \E c \in Conns : Fault(c)

\* Calls one after the other, storage that does not fail.
Spec == Init /\ [][Next]_vars

\* Calls one after the other, storage whose operations can fail.
SpecFault == Init /\ [][NextFault]_vars

\* The calls made at the same time: two connections, each with its own unit
\* of work, for one chat and three well-formed urls of feeds.
ConcChats == {[id |-> 42]}
ConcUrls == {Some([scheme |-> "https", rest |-> n]) : n \in {0, 1, 2}}

\* A call on a connection that is free, whatever the other connection does;
\* no call is made once the storage has handed out MaxFeedId feed ids.
EnterConc(c, nc, url) ==
    /\ NextFeedId <= MaxFeedId
    /\ EnterCall(c, nc, url)

NextConc ==
    \/ \E c \in Conns, nc \in ConcChats, url \in ConcUrls : EnterConc(c, nc, url)
    \/ \E c \in Conns : Step(c)

\* Calls that overlap, storage that does not fail.
SpecConc == Init /\ [][NextConc]_vars

\* ---------------------------------------------------------------------
\* The feed reader of src/sync/rss_reader.rs.

\* An RFC2822 date string, as far as its parse goes: the hour of the day and
\* the zone offset, in hours.  "10:00:00 +0200" and "08:00:00 +0000" are the
\* same instant; "25:00:00 +0000" is malformed.
PubDateStrings ==
    {[hour |-> 10, offset |-> 2], [hour |-> 8, offset |-> 0],
     [hour |-> 25, offset |-> 0]}

\* DateTime::parse_from_rfc2822: Ok(DateTime<FixedOffset>) or Err(ParseError).
parse_from_rfc2822(str) ==
    IF str.hour \in 0..23 /\ str.offset \in (-23)..23
    THEN [ok |-> TRUE, hour |-> str.hour, offset |-> str.offset]
    ELSE [ok |-> FALSE, hour |-> 0, offset |-> 0]

\* DateTime::<Utc>::from(DateTime<FixedOffset>): the same instant, in UTC.
DateTime_Utc_from(dt) == [utc_hour |-> dt.hour - dt.offset]

\* The items and the channels Channel::from_url can return.  A guid is a
\* value with a permalink flag.
OptText(t) == {None, Some(t)}
RawItems ==
    [title : OptText("title"), description : OptText("description"),
     link : OptText("link"), author : OptText("author"),
     guid : {None, Some([value |-> "guid", permalink |-> TRUE])},
     pub_date : {None} \cup {Some(d) : d \in PubDateStrings}]
ItemLists(n) == [1..n -> RawItems]
Channel(items) ==
    [title |-> "channel title", link |-> "channel link",
     description |-> "channel description", items |-> items]

\* What Channel::from_url returns: Ok(channel) or Err(rss::Error).
FromUrlOk(channel) == [ok |-> TRUE, channel |-> Some(channel), err |-> ""]
FromUrlErr(e) == [ok |-> FALSE, channel |-> None, err |-> e]
FromUrlErrors == {"io_error", "xml_error"}

\* The Option::map calls of the closure: the &str to a String, the Guid to
\* its value.
MapToString(o) == IF IsNone(o) THEN None ELSE Some(Unwrap(o))
MapGuidValue(o) == IF IsNone(o) THEN None ELSE Some(Unwrap(o).value)

\* The item closure of From<Channel>: item.pub_date().unwrap(), then
\* parse_from_rfc2822(..).unwrap(), then the FetchedFeedItem.  A failed
\* unwrap is a panic.
ItemPanics(item) ==
    \/ IsNone(item.pub_date)
    \/ ~parse_from_rfc2822(Unwrap(item.pub_date)).ok

\* A closure with a copy-and-paste slip: the guid is read from the author.
FetchedFeedItem_guid_from_author(item) ==
    [title |-> MapToString(item.title),
     description |-> MapToString(item.description),
     link |-> MapToString(item.link),
     author |-> MapToString(item.author),
     guid |-> MapToString(item.author),
     publication_date |->
         DateTime_Utc_from(parse_from_rfc2822(Unwrap(item.pub_date)))]

FetchedFeedItem(item) ==
    [title |-> MapToString(item.title),
     description |-> MapToString(item.description),
     link |-> MapToString(item.link),
     author |-> MapToString(item.author),
     guid |-> MapGuidValue(item.guid),
     publication_date |->
         DateTime_Utc_from(parse_from_rfc2822(Unwrap(item.pub_date)))]

\* channel.items().into_iter().map(..).collect(): the items in order, from
\* item i on, appended to acc; the first item whose closure panics ends it.
RECURSIVE MapCollect(_, _, _)
MapCollect(items, i, acc) ==
    IF i > Len(items) THEN [panic |-> FALSE, items |-> acc]
    ELSE IF ItemPanics(items[i]) THEN [panic |-> TRUE, items |-> <<>>]
    ELSE MapCollect(items, i + 1, Append(acc, FetchedFeedItem(items[i])))

\* A map that leaves out the items without a usable date (a filter_map).
RECURSIVE MapCollect_skipping(_, _, _)
MapCollect_skipping(items, i, acc) ==
    IF i > Len(items) THEN [panic |-> FALSE, items |-> acc]
    ELSE IF ItemPanics(items[i]) THEN MapCollect_skipping(items, i + 1, acc)
    ELSE MapCollect_skipping(items, i + 1,
                             Append(acc, FetchedFeedItem(items[i])))

\* A From<Channel> that skips the items without a usable date.
FetchedFeed_from_skipping(channel) ==
    [kind |-> "Ok", err |-> "",
     feed |-> Some([title |-> channel.title, link |-> channel.link,
                    description |-> channel.description,
                    items |-> MapCollect_skipping(channel.items, 1, <<>>).items])]

\* impl From<Channel> for FetchedFeed, as the arm Ok(FetchedFeed::from(channel))
\* of read_rss: the feed, or the panic of the item closure.
FetchedFeed_from(channel) ==
    LET collected == MapCollect(channel.items, 1, <<>>)
    IN IF collected.panic
       THEN [kind |-> "panic", err |-> "", feed |-> None]
       ELSE [kind |-> "Ok", err |-> "",
             feed |-> Some([title |-> channel.title, link |-> channel.link,
                            description |-> channel.description,
                            items |-> collected.items])]

\* RssReader::read_rss: match Channel::from_url(&self.url).
read_rss(src) ==
    IF src.ok THEN FetchedFeed_from(Unwrap(src.channel))
    ELSE [kind |-> "Err", err |-> src.err, feed |-> None]

\* A reader that has not read yet reads once, whatever its url serves.
ReadRss ==
    /\ IsNone(source)
    /\ \/ \E n \in 0..MaxItems : \E items \in ItemLists(n) :
             /\ source' = Some(FromUrlOk(Channel(items)))
             /\ read_result' = Some(read_rss(FromUrlOk(Channel(items))))
       \/ \E e \in FromUrlErrors :
             /\ source' = Some(FromUrlErr(e))
             /\ read_result' = Some(read_rss(FromUrlErr(e)))
    /\ UNCHANGED subVars

NextRss == ReadRss

\* One read_rss of a reader, for whatever the url serves.
SpecRss == Init /\ [][NextRss]_vars

\* ---------------------------------------------------------------------
\* Properties.

\* The running call of connection c got through validate_rss_url.
Validated(c) ==
    /\ IsSome(rss_url[c])
    /\ Url_parse(Unwrap(rss_url[c])).ok
    /\ fetched[c] = Some("channel")

\* The chat ids that own a subscription row of a storage state.
Owners(subs) == {s.chat_id : s \in BagToSet(subs)}

\* In storage state st, the subscription rows of chat id to a feed row with
\* the url, copies counted.
PairRows(st, id, url) ==
    {s \in BagToSet(st.subs) :
        /\ s.chat_id = id
        /\ \E f \in FeedRows(st.feeds, url) : f.id = s.feed_id}
PairCopies(st, id, url) ==
    BagCardinality([s \in PairRows(st, id, url) |-> CopiesIn(s, st.subs)])
Subscribed(st, id, url) == PairRows(st, id, url) # {}

\* What the connections with writes of their own see; a connection without
\* sees the committed tables.
OpenViews == {View(c) : c \in {d \in Conns : tx[d] # EmptyStorage}}

\* C1: no chat owns more than 3 subscription rows, in the committed tables
\* and in what any connection sees.
C1_SubscriptionCap ==
    /\ \A id \in Owners(db.subs) :
          count_subscriptions_for_chat(db.subs, id) <= SubscriptionLimit
    /\ \A v \in OpenViews : \A id \in Owners(v.subs) :
          count_subscriptions_for_chat(v.subs, id) <= SubscriptionLimit

\* A call was refused with SubscriptionCountLimit and its chat owns exactly
\* 3 rows.
C1_Witness ==
    \E c \in Conns :
        /\ pc[c] = "done"
        /\ result[c] = Err("SubscriptionCountLimit")
        /\ count_subscriptions_for_chat(db.subs, Unwrap(new_chat[c]).id)
               = SubscriptionLimit

\* C2: there is at most one subscription row for each (chat, feed) pair; of
\* two calls with the same chat and the same valid url, the first (the chat,
\* below the cap, is not subscribed to the url) succeeds, the second (it is
\* subscribed) returns SubscriptionAlreadyExists, and each leaves exactly one
\* row for the pair.
C2_UniquePair ==
    /\ \A s \in BagToSet(db.subs) : CopiesIn(s, db.subs) = 1
    /\ \A v \in OpenViews : \A s \in BagToSet(v.subs) : CopiesIn(s, v.subs) = 1
    /\ \A c \in Conns :
          (/\ pc[c] = "done"
           /\ Validated(c)
           /\ Subscribed(pre[c], Unwrap(new_chat[c]).id, Unwrap(rss_url[c])))
          => /\ result[c] = Err("SubscriptionAlreadyExists")
             /\ PairCopies(db, Unwrap(new_chat[c]).id, Unwrap(rss_url[c])) = 1
    /\ \A c \in Conns :
          (/\ pc[c] = "done"
           /\ Validated(c)
           /\ ~Subscribed(pre[c], Unwrap(new_chat[c]).id, Unwrap(rss_url[c]))
           /\ count_subscriptions_for_chat(pre[c].subs, Unwrap(new_chat[c]).id)
                  < SubscriptionLimit)
          => /\ result[c].kind = "Ok"
             /\ PairCopies(db, Unwrap(new_chat[c]).id, Unwrap(rss_url[c])) = 1

\* The second call for a pair has returned SubscriptionAlreadyExists.
C2_Witness ==
    \E c \in Conns :
        /\ pc[c] = "done"
        /\ Validated(c)
        /\ Subscribed(pre[c], Unwrap(new_chat[c]).id, Unwrap(rss_url[c]))
        /\ result[c] = Err("SubscriptionAlreadyExists")

\* C3: a call that returned SubscriptionAlreadyExists or
\* SubscriptionCountLimit has left the committed tables as they were when it
\* started, and no transaction of it is left open.
C3_RejectedCallRollsBack ==
    \A c \in Conns :
        (/\ pc[c] = "done"
         /\ result[c].err \in
                {"SubscriptionAlreadyExists", "SubscriptionCountLimit"})
        => /\ db = pre[c]
           /\ tx[c] = EmptyStorage
           /\ ~in_tx[c]

\* A 4th subscription to a url no feed row existed for was refused after the
\* feed upsert had run, and no feed row for the url is there.
C3_Witness ==
    \E c \in Conns :
        /\ pc[c] = "done"
        /\ result[c] = Err("SubscriptionCountLimit")
        /\ \E i \in 1..Len(events[c]) : events[c][i] = "upsert_feed"
        /\ FeedRows(pre[c].feeds, Unwrap(rss_url[c])) = {}
        /\ FeedRows(db.feeds, Unwrap(rss_url[c])) = {}

\* C4: a chat with 3 subscriptions that calls with a valid url of a feed it
\* is not subscribed to gets SubscriptionCountLimit and still has 3.
C4_FourthIsRefused ==
    \A c \in Conns :
        (/\ pc[c] = "done"
         /\ Validated(c)
         /\ count_subscriptions_for_chat(pre[c].subs, Unwrap(new_chat[c]).id)
                = SubscriptionLimit
         /\ ~Subscribed(pre[c], Unwrap(new_chat[c]).id, Unwrap(rss_url[c])))
        => /\ result[c] = Err("SubscriptionCountLimit")
           /\ count_subscriptions_for_chat(db.subs, Unwrap(new_chat[c]).id)
                  = SubscriptionLimit

\* The 4th call of a chat, for a distinct feed, has returned.
C4_Witness ==
    \E c \in Conns :
        /\ pc[c] = "done"
        /\ Validated(c)
        /\ count_subscriptions_for_chat(pre[c].subs, Unwrap(new_chat[c]).id)
               = SubscriptionLimit
        /\ ~Subscribed(pre[c], Unwrap(new_chat[c]).id, Unwrap(rss_url[c]))
        /\ result[c] = Err("SubscriptionCountLimit")

\* The call of connection c is over: it returned or it panicked.
Over(c) == pc[c] \in {"done", "panicked"}

\* A repository call of the running call of connection c failed.
StorageFailure(c) ==
    \E i \in 1..Len(events[c]) :
        events[c][i] \in {"upsert_chat_failed", "upsert_feed_failed",
                          "insert_subscription_failed"}

\* C5: a call in which the chat upsert, the feed upsert or the subscription
\* insert failed returns DbError wrapping the cause, with its unit of work
\* rolled back.
C5_StorageFailureIsDbError ==
    \A c \in Conns :
        (Over(c) /\ StorageFailure(c))
        => /\ result[c] = From_diesel_Error(events[c][Len(events[c])])
           /\ ~in_tx[c]
           /\ tx[c] = EmptyStorage
           /\ db = pre[c]

\* C6: a call with url = None returns RssUrlNotProvided at once: nothing but
\* the presence check has run, nothing was fetched, no transaction was
\* opened and the tables are as they were.
C6_UrlNotProvided ==
    \A c \in Conns :
        (IsSome(new_chat[c]) /\ IsNone(rss_url[c]))
        => /\ pc[c] = "done"
           /\ result[c] = Err("RssUrlNotProvided")
           /\ events[c] = <<"url_presence_check">>
           /\ IsNone(fetched[c])
           /\ ~in_tx[c]
           /\ tx[c] = EmptyStorage
           /\ db = pre[c]

\* A call with url = None has returned, into a storage that has rows.
C6_Witness ==
    \E c \in Conns :
        /\ pc[c] = "done"
        /\ IsSome(new_chat[c])
        /\ IsNone(rss_url[c])
        /\ db.subs # EmptyBag

\* C7: a call with a string that does not parse as a URL returns
\* InvalidRssUrl after the presence check and the parse only: no fetch, no
\* transaction, no row.
C7_InvalidRssUrl ==
    \A c \in Conns :
        (IsSome(rss_url[c]) /\ ~Url_parse(Unwrap(rss_url[c])).ok)
        => /\ pc[c] \in {"parse", "done"}
           /\ IsNone(fetched[c])
           /\ ~in_tx[c]
           /\ tx[c] = EmptyStorage
           /\ db = pre[c]
           /\ pc[c] = "done"
                => /\ result[c] = Err("InvalidRssUrl")
                   /\ events[c] = <<"url_presence_check", "url_parse">>

\* A call with "11" has returned.
C7_Witness ==
    \E c \in Conns :
        /\ pc[c] = "done"
        /\ rss_url[c] = Some(BadUrl)
        /\ result[c] = Err("InvalidRssUrl")

\* C8: a call with a well-formed URL whose Channel::from_url failed, in
\* whatever way, returns UrlIsNotRss: no transaction was opened and the
\* tables are as they were.
C8_UrlIsNotRss ==
    \A c \in Conns :
        (/\ IsSome(rss_url[c])
         /\ Url_parse(Unwrap(rss_url[c])).ok
         /\ IsSome(fetched[c])
         /\ fetched[c] # Some("channel"))
        => /\ pc[c] = "done"
           /\ result[c] = Err("UrlIsNotRss")
           /\ events[c] = <<"url_presence_check", "url_parse", "feed_fetch">>
           /\ ~in_tx[c]
           /\ tx[c] = EmptyStorage
           /\ db = pre[c]

\* A call whose fetch failed has returned UrlIsNotRss, into a storage that
\* has rows.
C8_Witness ==
    \E c \in Conns :
        /\ pc[c] = "done"
        /\ fetched[c] \in {Some("io_error"), Some("xml_error")}
        /\ result[c] = Err("UrlIsNotRss")
        /\ db.subs # EmptyBag

\* C9: a call for a chat with fewer than 3 subscriptions and a url that
\* serves a feed the chat is not subscribed to succeeds; the returned
\* subscription carries the ids of the chat row and the feed row the call
\* upserted, and the three rows are in the committed tables.
C9_NewSubscriptionSucceeds ==
    \A c \in Conns :
        (/\ pc[c] = "done"
         /\ Validated(c)
         /\ count_subscriptions_for_chat(pre[c].subs, Unwrap(new_chat[c]).id)
                < SubscriptionLimit
         /\ ~Subscribed(pre[c], Unwrap(new_chat[c]).id, Unwrap(rss_url[c])))
        => /\ result[c].kind = "Ok"
           /\ IsSome(chat[c])
           /\ IsSome(feed[c])
           /\ Unwrap(chat[c]).id = Unwrap(new_chat[c]).id
           /\ Unwrap(feed[c]).url = Unwrap(rss_url[c])
           /\ Unwrap(result[c].sub).chat_id = Unwrap(chat[c]).id
           /\ Unwrap(result[c].sub).feed_id = Unwrap(feed[c]).id
           /\ BagIn(Unwrap(chat[c]), db.chats)
           /\ BagIn(Unwrap(feed[c]), db.feeds)
           /\ BagIn(Unwrap(result[c].sub), db.subs)

\* A chat with 2 subscriptions has got its 3rd, to a feed another chat
\* had created.
C9_Witness ==
    \E c \in Conns :
        /\ pc[c] = "done"
        /\ result[c].kind = "Ok"
        /\ count_subscriptions_for_chat(pre[c].subs, Unwrap(new_chat[c]).id) = 2
        /\ FeedRows(pre[c].feeds, Unwrap(rss_url[c])) # {}

\* C10: every committed Chat row and every committed Feed row is referenced
\* by a committed Subscription row.
C10_NoOrphans ==
    /\ \A r \in BagToSet(db.chats) :
          \E s \in BagToSet(db.subs) : s.chat_id = r.id
    /\ \A f \in BagToSet(db.feeds) :
          \E s \in BagToSet(db.subs) : s.feed_id = f.id

\* One call has committed a new chat, a new feed and their subscription, and
\* a later call that upserted a new feed was refused.
C10_Witness ==
    /\ db.chats # EmptyBag
    /\ \E c \in Conns :
          /\ pc[c] = "done"
          /\ result[c].kind = "Err"
          /\ \E i \in 1..Len(events[c]) : events[c][i] = "upsert_feed"
          /\ FeedRows(View(c).feeds, Unwrap(rss_url[c])) = {}

\* The rows of a table with a key value, copies counted.
ChatCopies(chats, id) ==
    BagCardinality([r \in ChatRows(chats, id) |-> CopiesIn(r, chats)])
FeedCopies(feeds, url) ==
    BagCardinality([r \in FeedRows(feeds, url) |-> CopiesIn(r, feeds)])

\* C11: the chat upsert is idempotent on the external chat id: there is at
\* most one Chat row for an id, and a call that succeeds for a chat that had
\* a row (its earlier call with another url succeeded) returns a
\* subscription with the chat_id of the chat's earlier subscriptions, which
\* is the descriptor's id, with exactly one Chat row for it.
C11_ChatUpsertIdempotent ==
    /\ \A id \in ChatIds : ChatCopies(db.chats, id) <= 1
    /\ \A v \in OpenViews : \A id \in ChatIds : ChatCopies(v.chats, id) <= 1
    /\ \A c \in Conns :
          (pc[c] = "done" /\ result[c].kind = "Ok")
          => LET id == Unwrap(new_chat[c]).id
             IN /\ Unwrap(result[c].sub).chat_id = id
                /\ ChatCopies(db.chats, id) = 1
                /\ ChatRows(pre[c].chats, id) # {}
                     => /\ ChatRows(db.chats, id) = ChatRows(pre[c].chats, id)
                        /\ \E s \in BagToSet(pre[c].subs) :
                              s.chat_id = Unwrap(result[c].sub).chat_id

\* The second call of a chat, with another url, has succeeded.
C11_Witness ==
    \E c \in Conns :
        /\ pc[c] = "done"
        /\ result[c].kind = "Ok"
        /\ ChatRows(pre[c].chats, Unwrap(new_chat[c]).id) # {}
        /\ count_subscriptions_for_chat(db.subs, Unwrap(new_chat[c]).id) = 2

\* C12: the feed upsert is keyed by url: there is at most one Feed row for a
\* url, and a chat that subscribes to a url another chat is subscribed to
\* gets the feed_id of that chat's subscription.
C12_FeedUpsertKeyedByUrl ==
    /\ \A u \in GoodUrls : FeedCopies(db.feeds, u) <= 1
    /\ \A v \in OpenViews : \A u \in GoodUrls : FeedCopies(v.feeds, u) <= 1
    /\ \A c \in Conns :
          (pc[c] = "done" /\ result[c].kind = "Ok")
          => LET u == Unwrap(rss_url[c])
             IN /\ FeedCopies(db.feeds, u) = 1
                /\ \A f \in FeedRows(db.feeds, u) :
                      Unwrap(result[c].sub).feed_id = f.id
                /\ \A f \in FeedRows(pre[c].feeds, u) :
                      /\ Unwrap(result[c].sub).feed_id = f.id
                      /\ \E s \in BagToSet(pre[c].subs) :
                            /\ s.feed_id = Unwrap(result[c].sub).feed_id
                            /\ s.chat_id # Unwrap(result[c].sub).chat_id

\* A chat has subscribed to a url whose feed another chat had created, with a
\* feed id other than the first.
C12_Witness ==
    \E c \in Conns :
        /\ pc[c] = "done"
        /\ result[c].kind = "Ok"
        /\ FeedRows(pre[c].feeds, Unwrap(rss_url[c])) # {}
        /\ Unwrap(result[c].sub).feed_id > 1
        /\ \E s \in BagToSet(pre[c].subs) :
              /\ s.feed_id = Unwrap(result[c].sub).feed_id
              /\ s.chat_id # Unwrap(result[c].sub).chat_id

\* Event e is among the events of the running call of connection c.
Happened(c, e) == \E i \in 1..Len(events[c]) : events[c][i] = e

\* C14: the duplicate check runs before the cap check and its failure leaves
\* the closure: a chat with 3 subscriptions that calls with the url of a feed
\* it is subscribed to gets SubscriptionAlreadyExists, and the count check
\* has not run.
C14_DuplicateCheckFirst ==
    \A c \in Conns :
        /\ (/\ pc[c] = "done"
            /\ Validated(c)
            /\ count_subscriptions_for_chat(pre[c].subs, Unwrap(new_chat[c]).id)
                   = SubscriptionLimit
            /\ Subscribed(pre[c], Unwrap(new_chat[c]).id, Unwrap(rss_url[c])))
           => /\ result[c] = Err("SubscriptionAlreadyExists")
              /\ Happened(c, "find_subscription")
              /\ ~Happened(c, "count_subscriptions")
        /\ Happened(c, "count_subscriptions")
              => /\ Happened(c, "find_subscription")
                 /\ result[c].err # "SubscriptionAlreadyExists"

\* A chat with 3 subscriptions has called again with one of its urls.
C14_Witness ==
    \E c \in Conns :
        /\ pc[c] = "done"
        /\ Validated(c)
        /\ count_subscriptions_for_chat(pre[c].subs, Unwrap(new_chat[c]).id)
               = SubscriptionLimit
        /\ Subscribed(pre[c], Unwrap(new_chat[c]).id, Unwrap(rss_url[c]))
        /\ result[c] = Err("SubscriptionAlreadyExists")

\* The statements of create_subscription, in the order of its text.
CallOrder ==
    <<"url_presence_check", "url_parse", "feed_fetch", "open_unit_of_work",
      "upsert_chat", "upsert_feed", "find_subscription", "count_subscriptions",
      "insert_subscription", "commit">>
IsPrefix(e, s) ==
    /\ Len(e) <= Len(s)
    /\ \A i \in 1..Len(e) : e[i] = s[i]
\* A run of events in that order: a prefix of it, or a prefix that ends
\* with a check, followed by the rollback.
InOrder(e) ==
    \/ IsPrefix(e, CallOrder)
    \/ /\ Len(e) >= 2
       /\ e[Len(e)] = "rollback"
       /\ e[Len(e) - 1] \in {"find_subscription", "count_subscriptions"}
       /\ IsPrefix(SubSeq(e, 1, Len(e) - 1), CallOrder)

\* C15: the events of a call occur in the fixed order; the fetch is over and
\* was a success before the transaction is opened, so no transaction is open
\* during the validation and no storage operation precedes it.
C15_FixedOrder ==
    \A c \in Conns :
        /\ InOrder(events[c])
        /\ in_tx[c] => fetched[c] = Some("channel")
        /\ in_tx[c] <=> /\ Happened(c, "open_unit_of_work")
                        /\ ~Happened(c, "commit")
                        /\ ~Happened(c, "rollback")
        /\ tx[c] # EmptyStorage => in_tx[c]
        /\ pc[c] \in {"parse", "fetch", "begin"}
              => /\ ~in_tx[c]
                 /\ tx[c] = EmptyStorage
                 /\ db = pre[c]
        /\ (pc[c] = "done" /\ ~Validated(c))
              => /\ ~Happened(c, "open_unit_of_work")
                 /\ db = pre[c]

\* A call has gone through all its statements.
C15_Witness ==
    \E c \in Conns : pc[c] = "done" /\ events[c] = CallOrder

\* C18: a call never deletes or changes a row: when it returns Ok the
\* tables are those of its start plus exactly one Subscription row, at most
\* one Chat row and at most one Feed row, and the chat's count has grown by
\* 1; when it returns an Err the tables are those of its start; while it
\* runs the tables are those of its start.
C18_OnlyAdds ==
    \A c \in Conns :
        /\ (pc[c] = "done" /\ result[c].kind = "Ok")
           => /\ db.subs = pre[c].subs (+) SetToBag({Unwrap(result[c].sub)})
              /\ \/ db.chats = pre[c].chats
                 \/ db.chats = pre[c].chats (+) SetToBag({Unwrap(chat[c])})
              /\ \/ db.feeds = pre[c].feeds
                 \/ db.feeds = pre[c].feeds (+) SetToBag({Unwrap(feed[c])})
              /\ count_subscriptions_for_chat(db.subs, Unwrap(new_chat[c]).id)
                   = 1 + count_subscriptions_for_chat(pre[c].subs,
                                                      Unwrap(new_chat[c]).id)
        /\ (pc[c] = "done" /\ result[c].kind = "Err") => db = pre[c]
        /\ pc[c] \notin {"idle", "done"} => db = pre[c]

\* A call has added a subscription and a feed to tables that had rows, for a
\* chat that had a row.
C18_Witness ==
    \E c \in Conns :
        /\ pc[c] = "done"
        /\ result[c].kind = "Ok"
        /\ pre[c].subs # EmptyBag
        /\ db.chats = pre[c].chats
        /\ db.feeds # pre[c].feeds

\* C19: the cap is counted per chat: while another chat has 3
\* subscriptions, a chat with fewer than 3 that calls with a valid url it is
\* not subscribed to succeeds, feeds of the capped chat included.
C19_CapIsPerChat ==
    \A c \in Conns :
        (/\ pc[c] = "done"
         /\ Validated(c)
         /\ \E other \in Owners(pre[c].subs) :
               /\ other # Unwrap(new_chat[c]).id
               /\ count_subscriptions_for_chat(pre[c].subs, other)
                      = SubscriptionLimit
         /\ count_subscriptions_for_chat(pre[c].subs, Unwrap(new_chat[c]).id)
                < SubscriptionLimit
         /\ ~Subscribed(pre[c], Unwrap(new_chat[c]).id, Unwrap(rss_url[c])))
        => /\ result[c].kind = "Ok"
           /\ BagIn(Unwrap(result[c].sub), db.subs)
           /\ \A other \in Owners(pre[c].subs) :
                 count_subscriptions_for_chat(db.subs, other)
                     = count_subscriptions_for_chat(pre[c].subs, other)
                           + (IF other = Unwrap(new_chat[c]).id THEN 1 ELSE 0)

\* A chat has subscribed to a feed of a chat that has 3 subscriptions.
C19_Witness ==
    \E c \in Conns :
        /\ pc[c] = "done"
        /\ result[c].kind = "Ok"
        /\ \E s \in BagToSet(pre[c].subs) :
              /\ s.chat_id # Unwrap(new_chat[c]).id
              /\ s.feed_id = Unwrap(result[c].sub).feed_id
              /\ count_subscriptions_for_chat(pre[c].subs, s.chat_id)
                     = SubscriptionLimit
\* ---------------------------------------------------------------------
\* The feed reader: normalization of a fetched channel.

\* The items of the channel the reader was served, if it was served one.
Served == IsSome(source) /\ Unwrap(source).ok
SourceItems == Unwrap(Unwrap(source).channel).items

\* A publication date that is there and is a well-formed RFC2822 date.
WellDated(item) ==
    /\ IsSome(item.pub_date)
    /\ Unwrap(item.pub_date).hour < 24

\* An optional text of the output is there exactly when the source's is,
\* with the source's text.
SameText(out, in) ==
    /\ IsSome(out) <=> IsSome(in)
    /\ IsSome(in) => Unwrap(out) = Unwrap(in)

\* The output item carries the optional fields of the source item.
CarriedOver(out, in) ==
    /\ SameText(out.title, in.title)
    /\ SameText(out.description, in.description)
    /\ SameText(out.link, in.link)
    /\ SameText(out.author, in.author)
    /\ IsSome(out.guid) <=> IsSome(in.guid)
    /\ IsSome(in.guid) => Unwrap(out.guid) = Unwrap(in.guid).value

\* C16: a channel whose N items all have a well-formed RFC2822 publication
\* date is normalized to a feed of exactly N items in source order, item i
\* made from source item i, each optional field (title, description, link,
\* author, guid) present exactly when it is present in the source.
C16_ItemsCarriedOver ==
    (Served /\ \A i \in 1..Len(SourceItems) : WellDated(SourceItems[i]))
        => /\ Unwrap(read_result).kind = "Ok"
           /\ LET items == Unwrap(Unwrap(read_result).feed).items
              IN /\ Len(items) = Len(SourceItems)
                 /\ \A i \in 1..Len(SourceItems) :
                       CarriedOver(items[i], SourceItems[i])

\* A channel of two well-dated items was read: the first has an author and
\* no guid, the second a guid and no author, and the feed has the two items.
C16_Witness ==
    /\ Served
    /\ Len(SourceItems) = 2
    /\ \A i \in 1..2 : WellDated(SourceItems[i])
    /\ IsSome(SourceItems[1].author) /\ IsNone(SourceItems[1].guid)
    /\ IsNone(SourceItems[2].author) /\ IsSome(SourceItems[2].guid)
    /\ Unwrap(read_result).kind = "Ok"
    /\ Len(Unwrap(Unwrap(read_result).feed).items) = 2

\* C17: if any single item of the channel has a missing or a malformed
\* publication date, normalization aborts as a whole: read_rss panics, it
\* returns neither a feed (with the item skipped, or with the other items)
\* nor an error value.
C17_BadDateAborts ==
    (Served /\ \E i \in 1..Len(SourceItems) : ~WellDated(SourceItems[i]))
        => /\ Unwrap(read_result).kind = "panic"
           /\ IsNone(Unwrap(read_result).feed)

\* A channel of two items was read, the first well dated and the second with
\* a malformed date, and the read panicked.
C17_Witness ==
    /\ Served
    /\ Len(SourceItems) = 2
    /\ WellDated(SourceItems[1])
    /\ IsSome(SourceItems[2].pub_date) /\ ~WellDated(SourceItems[2])
    /\ Unwrap(read_result).kind = "panic"

\* ---------------------------------------------------------------------
\* Calls that overlap.

\* The cap and the uniqueness of a storage state: no chat owns more than 3
\* rows, and no chat has more than one row for a url.
CapAndUniqueness(st) ==
    /\ \A id \in Owners(st.subs) :
          count_subscriptions_for_chat(st.subs, id) <= SubscriptionLimit
    /\ \A id \in Owners(st.subs) : \A url \in ConcUrls :
          PairCopies(st, id, Unwrap(url)) <= 1

\* Connection c commits, and since its call started another call has
\* committed a row for the same chat.
CommitsAfterAnother(c) ==
    /\ pc[c] = "commit"
    /\ pc'[c] = "done"
    /\ count_subscriptions_for_chat(db.subs, Unwrap(chat[c]).id)
          > count_subscriptions_for_chat(pre[c].subs, Unwrap(chat[c]).id)

\* C13: two calls for the same chat that run at the same time as independent
\* units of work, each check reading the storage without the other's
\* uncommitted insert, can both pass the duplicate and the count check and
\* commit, which reaches a state where the chat owns more than 3 rows or is
\* subscribed twice to the same feed; the committed tables lose the cap or the
\* uniqueness in no other step than the commit of a call during which another
\* call for the chat committed.
C13_OnlyOverlapBreaksIt ==
    [][(CapAndUniqueness(db) /\ ~CapAndUniqueness(db'))
          => \E c \in Conns : CommitsAfterAnother(c)]_vars

\* Both connections have returned Ok for calls of the same chat, either call
\* started with 2 rows of the chat committed, and the chat now owns 4 rows,
\* two of them for the same url.
C13_Witness ==
    /\ \A c \in Conns :
          /\ pc[c] = "done"
          /\ result[c].kind = "Ok"
          /\ Unwrap(new_chat[c]).id = 42
          /\ count_subscriptions_for_chat(pre[c].subs, 42) = 2
    /\ count_subscriptions_for_chat(db.subs, 42) > SubscriptionLimit
    /\ \E url \in ConcUrls : PairCopies(db, 42, Unwrap(url)) = 2

====
